---- MODULE Spec2Model ----
(***************************************************************************)
(* Piece-to-sector allocation of the sector builder                        *)
(* (filecoin-proofs/src/api/sector_builder/helpers/add_piece.rs):          *)
(* add_piece, compute_destination_sector_id, provision_new_staged_sector.  *)
(*                                                                         *)
(* Byte amounts and sector ids are u64 in the source; every value of the   *)
(* model stays far below 2^64, so plain integers are used.                 *)
(***************************************************************************)
EXTENDS Integers, Sequences, FiniteSets, TLC

VARIABLES
    sectors,          \* StagedState.sectors: sector_id -> StagedSectorMetadata
    sector_id_nonce,  \* StagedState.sector_id_nonce
    num_accesses,     \* storage backend: staging sector accesses created so far
    sector_max,       \* sector_config().max_unsealed_bytes_per_sector()
    oracle,           \* which padding rule get_piece_padding follows
    pads,             \* per sector, the <<left, right>> padding written with each recorded piece
    issued,           \* the sector ids captured by the provisioning calls, in call order
    call,             \* the operation invoked last and its arguments
    result,           \* the value that invocation returned
    backend_calls,    \* the storage backend calls that invocation made, in order
    sel_call,         \* arguments of the last direct compute_destination_sector_id call
    sel_result        \* the value it returned

vars == <<sectors, sector_id_nonce, num_accesses, sector_max, oracle, pads, issued,
          call, result, backend_calls, sel_call, sel_result>>

-----------------------------------------------------------------------------
(* Bounds of the model *)

\* provisioning calls made on one state
MaxNonce == 2
\* candidates handed to a direct call of the selector
MaxCands == 2

\* per-sector capacities the backend is configured with: one that is a power of
\* two and one that is not
Capacities == {6, 8}
\* piece sizes the caller submits: below half, above half, a full sector of the
\* larger capacity, and one byte more
PieceSizes == {3, 5, 8, 9}
PieceKeys == {"x"}
OracleKinds == {"none", "align"}

-----------------------------------------------------------------------------
(* Values *)

\* Option<T>: None is the empty sequence, Some(v) the one-element sequence
None == <<>>
Some(v) == <<v>>

\* error::Result<SectorId> / Result<Option<SectorId>>, with the error's two numbers
Ok(v) == [kind |-> "Ok", val |-> v, a |-> 0, b |-> 0]
Err(k, x, y) == [kind |-> k, val |-> None, a |-> x, b |-> y]

err_overflow(num_bytes, max_bytes) == Err("Overflow", num_bytes, max_bytes)
err_inc_write(actual, expected) == Err("IncompleteWrite", actual, expected)
err_unrecov == Err("UnrecoverableState", 0, 0)
BackendError == Err("BackendError", 0, 0)
IoError == Err("IoError", 0, 0)

PieceMetadata(key, n) == [piece_key |-> key, num_bytes |-> n, comm_p |-> None]

StagedSectorMetadata(id, access) ==
    [sector_id |-> id, sector_access |-> access, pieces |-> <<>>, seal_status |-> "Pending"]

-----------------------------------------------------------------------------
(* The padding oracle (sector_builder::pieces) *)

\* sum of the pieces' unpadded lengths
RECURSIVE sum_piece_lengths(_)
sum_piece_lengths(pieces) ==
    IF pieces = <<>> THEN 0
    ELSE pieces[1].num_bytes + sum_piece_lengths(Tail(pieces))

\* smallest power of two (times n) that is >= piece_bytes
RECURSIVE PieceBytesNeeded(_, _)
PieceBytesNeeded(n, piece_bytes) ==
    IF n < piece_bytes THEN PieceBytesNeeded(2 * n, piece_bytes) ELSE n

\* <<left_padding, right_padding>> of a piece of piece_bytes written after
\* written_bytes: none at all, or the piece padded to a power of two and
\* aligned on a multiple of it
get_piece_padding(written_bytes, piece_bytes) ==
    IF oracle = "none" THEN <<0, 0>>
    ELSE LET needed == PieceBytesNeeded(1, piece_bytes)
             encroaching == written_bytes % needed
         IN  <<IF encroaching > 0 THEN needed - encroaching ELSE 0, needed - piece_bytes>>

-----------------------------------------------------------------------------
(* compute_destination_sector_id *)

\* Fits with < in place of <=: a piece that fills the sector exactly is refused
Fits_strict(staged_sector, max_bytes_per_sector, num_bytes_in_piece) ==
    LET sector_length == sum_piece_lengths(staged_sector.pieces)
        padding == get_piece_padding(sector_length, num_bytes_in_piece)
    IN  sector_length + padding[1] + num_bytes_in_piece + padding[2] < max_bytes_per_sector

\* the closure of find: the piece and its padding fit behind the sector's pieces
Fits(staged_sector, max_bytes_per_sector, num_bytes_in_piece) ==
    LET sector_length == sum_piece_lengths(staged_sector.pieces)
        padding == get_piece_padding(sector_length, num_bytes_in_piece)
    IN  sector_length + padding[1] + num_bytes_in_piece + padding[2] <= max_bytes_per_sector

\* Find as rfind would have it: the last element satisfying the closure
RECURSIVE FindLast(_, _, _)
FindLast(candidate_sectors, max_bytes_per_sector, num_bytes_in_piece) ==
    IF candidate_sectors = <<>> THEN None
    ELSE LET n == Len(candidate_sectors)
         IN  IF Fits(candidate_sectors[n], max_bytes_per_sector, num_bytes_in_piece)
             THEN Some(candidate_sectors[n])
             ELSE FindLast(SubSeq(candidate_sectors, 1, n - 1), max_bytes_per_sector,
                           num_bytes_in_piece)

\* Iterator::find: the first element satisfying the closure, in order
RECURSIVE Find(_, _, _)
Find(candidate_sectors, max_bytes_per_sector, num_bytes_in_piece) ==
    IF candidate_sectors = <<>> THEN None
    ELSE IF Fits(candidate_sectors[1], max_bytes_per_sector, num_bytes_in_piece)
         THEN Some(candidate_sectors[1])
         ELSE Find(Tail(candidate_sectors), max_bytes_per_sector, num_bytes_in_piece)

\* compute_destination_sector_id without the overflow test
compute_destination_sector_id_unchecked(candidate_sectors, max_bytes_per_sector, num_bytes_in_piece) ==
    LET found == Find(candidate_sectors, max_bytes_per_sector, num_bytes_in_piece)
    IN  Ok(IF found = None THEN None ELSE Some(found[1].sector_id))

\* compute_destination_sector_id with the overflow test off by one byte
compute_destination_sector_id_lax(candidate_sectors, max_bytes_per_sector, num_bytes_in_piece) ==
    IF num_bytes_in_piece > max_bytes_per_sector + 1
    THEN err_overflow(num_bytes_in_piece, max_bytes_per_sector)
    ELSE LET found == Find(candidate_sectors, max_bytes_per_sector, num_bytes_in_piece)
         IN  Ok(IF found = None THEN None ELSE Some(found[1].sector_id))

compute_destination_sector_id(candidate_sectors, max_bytes_per_sector, num_bytes_in_piece) ==
    IF num_bytes_in_piece > max_bytes_per_sector
    THEN err_overflow(num_bytes_in_piece, max_bytes_per_sector)
    ELSE LET found == Find(candidate_sectors, max_bytes_per_sector, num_bytes_in_piece)
         IN  Ok(IF found = None THEN None ELSE Some(found[1].sector_id))

-----------------------------------------------------------------------------
(* provision_new_staged_sector *)

\* one storage backend call, as the invocation logs it (ret = -1: the call failed)
BackendCall(name, access, left, bytes, right, ret) ==
    [op |-> name, access |-> access, left |-> left, bytes |-> bytes, right |-> right,
     ret |-> ret]

\* HashMap::insert: the entry under key k becomes v, whether or not k was a key
Insert(map, k, v) == [x \in DOMAIN map \cup {k} |-> IF x = k THEN v ELSE map[x]]

\* provision_new_staged_sector giving the id back when the backend fails
provision_rolls_back(st, access) ==
    LET sector_id == st.sector_id_nonce + 1
        bumped == [st EXCEPT !.sector_id_nonce = sector_id]
    IN  IF access = None
        THEN [st |-> st, res |-> BackendError, sector_id |-> Some(sector_id),
              calls |-> <<BackendCall("new_staging_sector_access", 0, 0, 0, 0, -1)>>]
        ELSE LET meta == StagedSectorMetadata(sector_id, access[1])
             IN  [st |-> [bumped EXCEPT !.sectors = Insert(@, meta.sector_id, meta)],
                  res |-> Ok(sector_id), sector_id |-> Some(sector_id),
                  calls |-> <<BackendCall("new_staging_sector_access", 0, 0, 0, 0,
                                          access[1])>>]

\* provision_new_staged_sector incrementing a copy of the nonce, not the nonce
provision_bumps_copy(st, access) ==
    LET sector_id == st.sector_id_nonce + 1
    IN  IF access = None
        THEN [st |-> st, res |-> BackendError, sector_id |-> Some(sector_id),
              calls |-> <<BackendCall("new_staging_sector_access", 0, 0, 0, 0, -1)>>]
        ELSE LET meta == StagedSectorMetadata(sector_id, access[1])
             IN  [st |-> [st EXCEPT !.sectors = Insert(@, meta.sector_id, meta)],
                  res |-> Ok(sector_id), sector_id |-> Some(sector_id),
                  calls |-> <<BackendCall("new_staging_sector_access", 0, 0, 0, 0,
                                          access[1])>>]

\* provision_new_staged_sector with one part changed, as the flaw says:
\*   "first"  the record is inserted before the backend is asked for the access
\*   "len"    the id is taken from the number of sectors, not from the nonce
\*   "old"    the record is keyed by the nonce as it was before the increment
provision_with(flaw, st, access) ==
    LET sector_id == st.sector_id_nonce + 1
        used_id == IF flaw = "len" THEN Cardinality(DOMAIN st.sectors) + 1 ELSE sector_id
        key == IF flaw = "old" THEN st.sector_id_nonce ELSE used_id
        bumped == [st EXCEPT !.sector_id_nonce = sector_id]
        meta == StagedSectorMetadata(used_id, IF access = None THEN 0 ELSE access[1])
        inserted == [bumped EXCEPT !.sectors = Insert(@, key, meta)]
    IN  IF access = None
        THEN [st |-> IF flaw = "first" THEN inserted ELSE bumped, res |-> BackendError,
              sector_id |-> Some(used_id),
              calls |-> <<BackendCall("new_staging_sector_access", 0, 0, 0, 0, -1)>>]
        ELSE [st |-> inserted, res |-> Ok(used_id), sector_id |-> Some(used_id),
              calls |-> <<BackendCall("new_staging_sector_access", 0, 0, 0, 0, access[1])>>]

provision_inserts_first(st, access) == provision_with("first", st, access)

provision_keyed_by_len(st, access) == provision_with("len", st, access)

provision_keys_old_nonce(st, access) == provision_with("old", st, access)

\* st is the StagedState; access is the backend's answer to
\* new_staging_sector_access: Some(handle), or None when it fails.
\* sector_id is the id the call captured from the nonce.
provision_new_staged_sector(st, access) ==
    LET sector_id == st.sector_id_nonce + 1
        bumped == [st EXCEPT !.sector_id_nonce = sector_id]
    IN  IF access = None
        THEN [st |-> bumped, res |-> BackendError, sector_id |-> Some(sector_id),
              calls |-> <<BackendCall("new_staging_sector_access", 0, 0, 0, 0, -1)>>]
        ELSE LET meta == StagedSectorMetadata(sector_id, access[1])
             IN  [st |-> [bumped EXCEPT !.sectors = Insert(@, meta.sector_id, meta)],
                  res |-> Ok(sector_id), sector_id |-> Some(sector_id),
                  calls |-> <<BackendCall("new_staging_sector_access", 0, 0, 0, 0,
                                          access[1])>>]

-----------------------------------------------------------------------------
(* add_piece *)

\* the backend's answer to write_and_preprocess: an error, or a byte count that
\* falls short of the bytes of the stream by `short` (0: all of them; -1: one more)
WriteAnswers ==
    {[ok |-> FALSE, short |-> 0]} \cup {[ok |-> TRUE, short |-> d] : d \in {-1, 0, 1}}

\* write_piece with one part changed, as the flag says:
\*   "lt"     the count is verified with < in place of !=
\*   "early"  the piece is pushed before the count is verified
\*   "padded" the piece is recorded with the padded length
\*   "stale"  the padding is computed for an empty sector
\*   "front"  the piece is inserted at the front of the list
\*   "replace" the piece list is assigned the new piece alone
\*   "cleanup" a destination that holds no piece is removed when the write fails
write_piece_with(flaw, st, dest_sector_id, piece_key, piece_bytes_amount, file_ok, write) ==
    IF dest_sector_id \notin DOMAIN st.sectors
    THEN [st |-> st, res |-> err_unrecov, calls |-> <<>>]
    ELSE IF ~file_ok
    THEN [st |-> st, res |-> IoError, calls |-> <<>>]
    ELSE LET s == st.sectors[dest_sector_id]
             sector_length == IF flaw = "stale" THEN 0 ELSE sum_piece_lengths(s.pieces)
             padding == get_piece_padding(sector_length, piece_bytes_amount)
             left_padding == padding[1]
             right_padding == padding[2]
             expected_num_bytes_written == left_padding + piece_bytes_amount + right_padding
             num_bytes_written == expected_num_bytes_written - write.short
             logged == BackendCall("write_and_preprocess", s.sector_access, left_padding,
                                   piece_bytes_amount, right_padding,
                                   IF write.ok THEN num_bytes_written ELSE -1)
             piece == PieceMetadata(piece_key,
                                    IF flaw = "padded" THEN expected_num_bytes_written
                                    ELSE piece_bytes_amount)
             pushed == [st EXCEPT !.sectors[dest_sector_id].pieces =
                           IF flaw = "front" THEN <<piece>> \o @
                           ELSE IF flaw = "replace" THEN <<piece>>
                           ELSE Append(@, piece)]
             removed == [st EXCEPT !.sectors =
                            [k \in DOMAIN @ \ {dest_sector_id} |-> @[k]]]
             mismatch == IF flaw = "lt"
                         THEN num_bytes_written < expected_num_bytes_written
                         ELSE num_bytes_written # expected_num_bytes_written
         IN  IF ~write.ok
             THEN [st |-> IF flaw = "cleanup" /\ s.pieces = <<>> THEN removed ELSE st,
                   res |-> BackendError, calls |-> <<logged>>]
             ELSE IF mismatch
             THEN [st |-> IF flaw = "early" THEN pushed ELSE st,
                   res |-> err_inc_write(num_bytes_written, expected_num_bytes_written),
                   calls |-> <<logged>>]
             ELSE [st |-> pushed, res |-> Ok(s.sector_id), calls |-> <<logged>>]

write_piece_lt(st, dest_sector_id, piece_key, piece_bytes_amount, file_ok, write) ==
    write_piece_with("lt", st, dest_sector_id, piece_key, piece_bytes_amount, file_ok, write)

write_piece_early(st, dest_sector_id, piece_key, piece_bytes_amount, file_ok, write) ==
    write_piece_with("early", st, dest_sector_id, piece_key, piece_bytes_amount, file_ok,
                     write)

write_piece_padded(st, dest_sector_id, piece_key, piece_bytes_amount, file_ok, write) ==
    write_piece_with("padded", st, dest_sector_id, piece_key, piece_bytes_amount, file_ok,
                     write)

write_piece_stale(st, dest_sector_id, piece_key, piece_bytes_amount, file_ok, write) ==
    write_piece_with("stale", st, dest_sector_id, piece_key, piece_bytes_amount, file_ok,
                     write)

write_piece_front(st, dest_sector_id, piece_key, piece_bytes_amount, file_ok, write) ==
    write_piece_with("front", st, dest_sector_id, piece_key, piece_bytes_amount, file_ok,
                     write)

write_piece_replace(st, dest_sector_id, piece_key, piece_bytes_amount, file_ok, write) ==
    write_piece_with("replace", st, dest_sector_id, piece_key, piece_bytes_amount, file_ok,
                     write)

write_piece_cleanup(st, dest_sector_id, piece_key, piece_bytes_amount, file_ok, write) ==
    write_piece_with("cleanup", st, dest_sector_id, piece_key, piece_bytes_amount, file_ok,
                     write)

\* lines 45-84: look the destination up, open the piece, write the padded
\* stream, verify the count, record the piece
write_piece(st, dest_sector_id, piece_key, piece_bytes_amount, file_ok, write) ==
    IF dest_sector_id \notin DOMAIN st.sectors
    THEN [st |-> st, res |-> err_unrecov, calls |-> <<>>]
    ELSE IF ~file_ok
    THEN [st |-> st, res |-> IoError, calls |-> <<>>]
    ELSE LET s == st.sectors[dest_sector_id]
             sector_length == sum_piece_lengths(s.pieces)
             padding == get_piece_padding(sector_length, piece_bytes_amount)
             left_padding == padding[1]
             right_padding == padding[2]
             expected_num_bytes_written == left_padding + piece_bytes_amount + right_padding
             num_bytes_written == expected_num_bytes_written - write.short
             logged == BackendCall("write_and_preprocess", s.sector_access, left_padding,
                                   piece_bytes_amount, right_padding,
                                   IF write.ok THEN num_bytes_written ELSE -1)
         IN  IF ~write.ok
             THEN [st |-> st, res |-> BackendError, calls |-> <<logged>>]
             ELSE IF num_bytes_written # expected_num_bytes_written
             THEN [st |-> st,
                   res |-> err_inc_write(num_bytes_written, expected_num_bytes_written),
                   calls |-> <<logged>>]
             ELSE [st |-> [st EXCEPT !.sectors[dest_sector_id].pieces =
                                Append(@, PieceMetadata(piece_key, piece_bytes_amount))],
                   res |-> Ok(s.sector_id), calls |-> <<logged>>]

\* PendingKeys without the filter on the seal status
PendingKeys_all(map) == DOMAIN map

\* the keys of the sectors the filter of lines 31-36 keeps
PendingKeys(map) == {k \in DOMAIN map : map[k].seal_status = "Pending"}

\* order is the order in which the iteration over the sectors map meets the
\* Pending sectors; the map fixes none, so every order is possible
add_piece(st, piece_key, piece_bytes_amount, order, access, file_ok, write) ==
    LET candidates == [i \in 1..Len(order) |-> st.sectors[order[i]]]
        opt_dest_sector_id ==
            compute_destination_sector_id(candidates, sector_max, piece_bytes_amount)
    IN  IF opt_dest_sector_id.kind # "Ok"
        THEN [st |-> st, res |-> opt_dest_sector_id, sector_id |-> None, calls |-> <<>>]
        ELSE LET prov == IF opt_dest_sector_id.val = None
                         THEN provision_new_staged_sector(st, access)
                         ELSE [st |-> st, res |-> Ok(opt_dest_sector_id.val[1]),
                               sector_id |-> None, calls |-> <<>>]
             IN  IF prov.res.kind # "Ok"
                 THEN prov
                 ELSE LET w == write_piece(prov.st, prov.res.val, piece_key,
                                           piece_bytes_amount, file_ok, write)
                      IN  [st |-> w.st, res |-> w.res, sector_id |-> prov.sector_id,
                           calls |-> prov.calls \o w.calls]

-----------------------------------------------------------------------------
(* The state machine *)

\* the orders in which a map with key set S may iterate
Orders(S) == {f \in [1..Cardinality(S) -> S] : \A i, j \in DOMAIN f : f[i] = f[j] => i = j}

NoCall == [op |-> "none", piece_key |-> "", piece_bytes_amount |-> 0]
NoSel == [candidates |-> <<>>, max |-> 0, piece |-> 0]

Init ==
    /\ sectors = <<>>
    /\ sector_id_nonce = 0
    /\ num_accesses = 0
    /\ sector_max \in Capacities
    /\ oracle \in OracleKinds
    /\ pads = <<>>
    /\ issued = <<>>
    /\ call = NoCall
    /\ result = Ok(0)
    /\ backend_calls = <<>>
    /\ sel_call = NoSel
    /\ sel_result = Ok(None)

\* what the backend and the file system may answer within one call. A call
\* consults new_staging_sector_access, File::open and write_and_preprocess in
\* this order and stops at the first failure, so the answers after a failure
\* are never read: one representative of them is enough.
BackendAnswers ==
    {[access_ok |-> FALSE, file_ok |-> TRUE, write |-> [ok |-> TRUE, short |-> 0]],
     [access_ok |-> TRUE, file_ok |-> FALSE, write |-> [ok |-> TRUE, short |-> 0]]}
    \cup {[access_ok |-> TRUE, file_ok |-> TRUE, write |-> w] : w \in WriteAnswers}

\* the padding handed to the backend with the piece an outcome recorded
Recorded(r) ==
    IF r.res.kind = "Ok"
    THEN LET w == r.calls[Len(r.calls)] IN <<<<w.left, w.right>>>>
    ELSE <<>>

\* one call of add_piece by the (serialising) caller, with the backend's answers
AddPiece ==
    \E order \in Orders(PendingKeys(sectors)), piece_key \in PieceKeys,
       piece_bytes_amount \in PieceSizes, env \in BackendAnswers :
      \E r \in {add_piece([sectors |-> sectors, sector_id_nonce |-> sector_id_nonce],
                          piece_key, piece_bytes_amount, order,
                          IF env.access_ok THEN Some(num_accesses + 1) ELSE None,
                          env.file_ok, env.write)} :
        /\ r.st.sector_id_nonce <= MaxNonce
        /\ sectors' = r.st.sectors
        /\ sector_id_nonce' = r.st.sector_id_nonce
        /\ num_accesses' = num_accesses + Cardinality(
               {i \in DOMAIN r.calls :
                   r.calls[i].op = "new_staging_sector_access" /\ r.calls[i].ret # -1})
        /\ issued' = issued \o r.sector_id
        /\ pads' = [k \in DOMAIN r.st.sectors |->
                      (IF k \in DOMAIN pads THEN pads[k] ELSE <<>>)
                      \o (IF r.res.kind = "Ok" /\ k = r.res.val THEN Recorded(r) ELSE <<>>)]
        /\ call' = [op |-> "add_piece", piece_key |-> piece_key,
                    piece_bytes_amount |-> piece_bytes_amount]
        /\ result' = r.res
        /\ backend_calls' = r.calls
        /\ UNCHANGED <<sector_max, oracle, sel_call, sel_result>>

\* the sealing collaborator takes a Pending sector out of Pending between calls
SealSector ==
    \E k \in DOMAIN sectors :
        /\ sectors[k].seal_status = "Pending"
        /\ sectors' = [sectors EXCEPT ![k].seal_status = "Sealed"]
        /\ call' = [op |-> "seal", piece_key |-> "", piece_bytes_amount |-> 0]
        /\ result' = Ok(k)
        /\ backend_calls' = <<>>
        /\ UNCHANGED <<sector_id_nonce, num_accesses, sector_max, oracle, pads, issued,
                       sel_call, sel_result>>

Next == AddPiece \/ SealSector

Spec == Init /\ [][Next]_vars

-----------------------------------------------------------------------------
(* Direct calls of the selector, on any candidate list *)

SelCapacities == {3, 4}
SelPieceSizes == 1..5
SelSectorIds == {0, 1}
\* the piece lists of a candidate: at most two pieces of 1, 2 or 4 bytes
SelPieceLists ==
    {<<>>} \cup {<<PieceMetadata("x", n)>> : n \in {1, 2, 4}}
           \cup {<<PieceMetadata("x", n), PieceMetadata("x", m)>> : n, m \in {1, 2}}
SelSectors ==
    {[sector_id |-> id, sector_access |-> 0, pieces |-> ps, seal_status |-> "Pending"] :
        id \in SelSectorIds, ps \in SelPieceLists}
CandidateLists == UNION {[1..n -> SelSectors] : n \in 0..MaxCands}

\* one call per behaviour: the function is pure, so a call sees nothing of the
\* calls before it
SelectCall ==
    /\ sel_call = NoSel
    /\ \E candidates \in CandidateLists, max \in SelCapacities, piece \in SelPieceSizes :
        /\ sel_call' = [candidates |-> candidates, max |-> max, piece |-> piece]
        /\ sel_result' = compute_destination_sector_id(candidates, max, piece)
        /\ UNCHANGED <<sectors, sector_id_nonce, num_accesses, sector_max, oracle, pads,
                       issued, call, result, backend_calls>>

NextSel == SelectCall

SpecSel == Init /\ [][NextSel]_vars

-----------------------------------------------------------------------------
(* Claims about the selector, checked under SpecSel *)

\* C1: a piece larger than the capacity gets the Overflow error from
\* compute_destination_sector_id, whatever the candidate list holds.
C1_OverflowWhenPieceExceedsCapacity ==
    sel_call.piece > sel_call.max
        => sel_result = err_overflow(sel_call.piece, sel_call.max)

\* an oversized piece was refused although the first candidate is an empty sector
C1_Witness ==
    /\ sel_call.piece > sel_call.max
    /\ Len(sel_call.candidates) > 0
    /\ sel_call.candidates[1].pieces = <<>>
    /\ sel_result.kind = "Overflow"

\* the positions of the candidates behind whose pieces the piece fits with the
\* padding the oracle gives it there
SelFitting ==
    {i \in 1..Len(sel_call.candidates) :
        LET occupied == sum_piece_lengths(sel_call.candidates[i].pieces)
            padding == get_piece_padding(occupied, sel_call.piece)
        IN  occupied + padding[1] + sel_call.piece + padding[2] <= sel_call.max}

\* C2: for a piece no larger than the capacity the selector returns Ok(Some(id))
\* with id the sector_id of the first candidate, in input order, that satisfies
\* occupied + left_padding + piece + right_padding <= capacity, and Ok(None)
\* exactly when no candidate satisfies it.
C2_FirstFitInInputOrder ==
    (sel_call # NoSel /\ sel_call.piece <= sel_call.max)
        => /\ sel_result.kind = "Ok"
           /\ (sel_result.val = None) <=> (SelFitting = {})
           /\ \A i \in SelFitting :
                 (\A j \in SelFitting : i <= j)
                     => sel_result.val = Some(sel_call.candidates[i].sector_id)

\* the piece does not fit the first candidate and fits the second, whose id is
\* returned, with padding that is not zero
C2_Witness ==
    /\ Len(sel_call.candidates) = 2
    /\ SelFitting = {2}
    /\ sel_call.candidates[1].sector_id # sel_call.candidates[2].sector_id
    /\ sel_result = Ok(Some(sel_call.candidates[2].sector_id))
    /\ get_piece_padding(sum_piece_lengths(sel_call.candidates[2].pieces),
                         sel_call.piece) # <<0, 0>>

-----------------------------------------------------------------------------
(* Claims about add_piece, checked under Spec *)

\* the step is a call of add_piece: call', result' and backend_calls' are its
\* arguments, its return value and the backend calls it made
AddPieceStep == call'.op = "add_piece"

\* the piece list a sector had before the step (empty if it did not exist)
PiecesBefore(k) == IF k \in DOMAIN sectors THEN sectors[k].pieces ELSE <<>>

\* the last backend call of the step is a write whose returned count differs
\* from the length of the stream it was handed
ShortWrite(w) ==
    /\ w.op = "write_and_preprocess"
    /\ w.ret # -1
    /\ w.ret # w.left + w.bytes + w.right

\* C3: add_piece with a piece larger than the backend's per-sector capacity
\* returns Overflow and touches nothing: sectors and sector_id_nonce keep their
\* values, no sector access is requested and no write is issued.
C3_OverflowTouchesNothing ==
    [][(AddPieceStep /\ call'.piece_bytes_amount > sector_max)
          => /\ result' = err_overflow(call'.piece_bytes_amount, sector_max)
             /\ sectors' = sectors
             /\ sector_id_nonce' = sector_id_nonce
             /\ backend_calls' = <<>>]_vars

\* an oversized piece was refused on a state that holds sectors
C3_Witness ==
    /\ call.op = "add_piece"
    /\ call.piece_bytes_amount > sector_max
    /\ result.kind = "Overflow"
    /\ DOMAIN sectors # {}
    /\ backend_calls = <<>>

\* C4: when the backend write returns a count different from
\* left_padding + piece_size + right_padding, add_piece fails with
\* IncompleteWrite(actual, expected) and the destination sector's piece list is
\* what it was before the call.
C4_IncompleteWriteRecordsNothing ==
    [][(AddPieceStep /\ backend_calls' # <<>>
           /\ ShortWrite(backend_calls'[Len(backend_calls')]))
          => LET w == backend_calls'[Len(backend_calls')]
             IN  /\ w.bytes = call'.piece_bytes_amount
                 /\ result' = err_inc_write(w.ret, w.left + call'.piece_bytes_amount + w.right)
                 /\ \A k \in DOMAIN sectors' :
                       sectors'[k].sector_access = w.access
                           => sectors'[k].pieces = PiecesBefore(k)]_vars

\* a write into a sector that already holds a piece returned one byte more than
\* the padded piece, and the call failed
C4_Witness ==
    /\ call.op = "add_piece"
    /\ backend_calls # <<>>
    /\ LET w == backend_calls[Len(backend_calls)]
       IN  /\ ShortWrite(w)
           /\ w.ret > w.left + w.bytes + w.right
           /\ w.left + w.right > 0
           /\ \E k \in DOMAIN sectors :
                 sectors[k].sector_access = w.access /\ sectors[k].pieces # <<>>
    /\ result.kind = "IncompleteWrite"

\* the failures C5 is about: IncompleteWrite, and the failures before the write
\* step (Overflow, the provisioning BackendError, the piece source not opening)
FailsBeforeOrAtVerification ==
    /\ AddPieceStep
    /\ \/ result'.kind \in {"IncompleteWrite", "Overflow", "IoError"}
       \/ /\ result'.kind = "BackendError"
          /\ backend_calls'[Len(backend_calls')].op = "new_staging_sector_access"

\* C5 as stated: such a failing call leaves the sectors map as it was (same keys,
\* same records).
C5_FailureLeavesSectors ==
    [][FailsBeforeOrAtVerification => sectors' = sectors]_vars

\* C5 as amended: such a failing call leaves every sector record that existed
\* before the call as it was and removes no key; the only change sectors can
\* show is one new empty Pending sector under the id the call provisioned, when
\* the provisioning succeeded before the failure; the nonce advances by at most
\* one.
C5_FailureKeepsExistingSectors ==
    [][FailsBeforeOrAtVerification
          => /\ \A k \in DOMAIN sectors : k \in DOMAIN sectors' /\ sectors'[k] = sectors[k]
             /\ \A k \in DOMAIN sectors' \ DOMAIN sectors :
                   /\ k = sector_id_nonce'
                   /\ sector_id_nonce' = sector_id_nonce + 1
                   /\ sectors'[k].pieces = <<>>
                   /\ sectors'[k].seal_status = "Pending"
                   /\ sectors'[k].sector_id = k
             /\ sector_id_nonce' \in {sector_id_nonce, sector_id_nonce + 1}]_vars

\* a call provisioned a sector next to an existing, non-empty one and then
\* failed with IncompleteWrite
C5_Witness ==
    /\ call.op = "add_piece"
    /\ result.kind = "IncompleteWrite"
    /\ Len(backend_calls) = 2
    /\ \E k \in DOMAIN sectors : sectors[k].pieces # <<>>
    /\ sector_id_nonce \in DOMAIN sectors
    /\ sectors[sector_id_nonce].pieces = <<>>

\* C6: the sector ids issued by the provisioning calls, failed ones included,
\* are strictly increasing (hence pairwise distinct).
C6_IssuedIdsStrictlyIncrease ==
    \A i, j \in DOMAIN issued : i < j => issued[i] < issued[j]

\* two ids were issued, the first of them to a provisioning the backend failed
C6_Witness ==
    /\ Len(issued) >= 2
    /\ issued[1] \notin DOMAIN sectors
    /\ issued[2] \in DOMAIN sectors

\* C7: every key of sectors is <= sector_id_nonce and no two sector records
\* share a sector_id.
C7_KeysBelowNonceAndIdsDistinct ==
    /\ \A k \in DOMAIN sectors : k <= sector_id_nonce
    /\ \A j, k \in DOMAIN sectors : sectors[j].sector_id = sectors[k].sector_id => j = k

\* two sectors exist and the nonce has reached the larger key
C7_Witness ==
    /\ Cardinality(DOMAIN sectors) >= 2
    /\ sector_id_nonce \in DOMAIN sectors

\* the bytes a sector holds: its pieces with the padding written around each
RECURSIVE SumPads(_)
SumPads(ps) == IF ps = <<>> THEN 0 ELSE ps[1][1] + ps[1][2] + SumPads(Tail(ps))
PaddedLength(k) == sum_piece_lengths(sectors[k].pieces) + SumPads(pads[k])

\* C8: for every Pending sector the sum of its piece lengths plus the padding
\* the oracle assigned to each piece at insertion never exceeds the capacity.
C8_PendingSectorWithinCapacity ==
    \A k \in DOMAIN sectors :
        sectors[k].seal_status = "Pending" => PaddedLength(k) <= sector_max

\* C9: after a successful add_piece, sum_piece_lengths over the destination
\* sector's pieces is exactly piece_size greater than before the call.
C9_SumGrowsByPieceSize ==
    [][(AddPieceStep /\ result'.kind = "Ok")
          => /\ result'.val \in DOMAIN sectors'
             /\ sum_piece_lengths(sectors'[result'.val].pieces)
                    = sum_piece_lengths(PiecesBefore(result'.val))
                      + call'.piece_bytes_amount]_vars

\* a piece was added, with padding, behind a piece the sector already held
C9_Witness ==
    /\ call.op = "add_piece"
    /\ result.kind = "Ok"
    /\ Len(sectors[result.val].pieces) >= 2
    /\ LET w == backend_calls[Len(backend_calls)] IN w.left + w.right > 0

\* the last backend call of the step is a write to sector k that returned
\* exactly left + piece + right, with the padding the oracle gives for the
\* length k had before the step
VerifiedWrite(k) ==
    /\ backend_calls' # <<>>
    /\ LET w == backend_calls'[Len(backend_calls')]
           padding == get_piece_padding(sum_piece_lengths(PiecesBefore(k)),
                                        call'.piece_bytes_amount)
       IN  /\ w.op = "write_and_preprocess"
           /\ w.access = sectors'[k].sector_access
           /\ w.bytes = call'.piece_bytes_amount
           /\ <<w.left, w.right>> = padding
           /\ w.ret = padding[1] + call'.piece_bytes_amount + padding[2]

\* C10: add_piece returns success and records the piece only if the write
\* returned exactly left_padding + piece_size + right_padding, the padding being
\* the oracle's answer for the destination's occupied length before the write;
\* no piece record appears in any sector without such a write in the same call.
C10_RecordOnlyAfterVerifiedWrite ==
    [][/\ (AddPieceStep /\ result'.kind = "Ok") => VerifiedWrite(result'.val)
       /\ \A k \in DOMAIN sectors' :
             sectors'[k].pieces # PiecesBefore(k) => (AddPieceStep /\ VerifiedWrite(k))]_vars

\* a piece was recorded in a freshly provisioned sector after a write of the
\* padded length
C10_Witness ==
    /\ call.op = "add_piece"
    /\ result.kind = "Ok"
    /\ Len(backend_calls) = 2
    /\ backend_calls[2].ret = backend_calls[2].left + backend_calls[2].bytes
                              + backend_calls[2].right
    /\ backend_calls[2].right > 0
    /\ Len(sectors[result.val].pieces) = 1

-----------------------------------------------------------------------------
(* Claims about provisioning and the destination, checked under Spec *)

\* the backend calls of the step that ask for a staging sector access
AccessRequests == {i \in DOMAIN backend_calls' :
                      backend_calls'[i].op = "new_staging_sector_access"}

\* the step provisioned, and the backend refused the sector access
ProvisioningFailed ==
    /\ AddPieceStep
    /\ \E i \in AccessRequests : backend_calls'[i].ret = -1

\* the ids issued so far
IssuedIds == {issued[i] : i \in DOMAIN issued}

\* C11: when the backend fails to create the sector access during provisioning,
\* the call returns BackendError, sector_id_nonce stays incremented by exactly
\* one, no sector record is inserted, and the id consumed is never issued again
\* (an id issued by any later step is none of those issued before).
C11_FailedProvisioningConsumesId ==
    [][/\ ProvisioningFailed
            => /\ result' = BackendError
               /\ sector_id_nonce' = sector_id_nonce + 1
               /\ issued' = Append(issued, sector_id_nonce + 1)
               /\ sectors' = sectors
               /\ Len(backend_calls') = 1
       /\ \A i \in DOMAIN issued' \ DOMAIN issued : issued'[i] \notin IssuedIds]_vars

\* a provisioning failed at the backend after an earlier one had failed too:
\* two ids are consumed and neither is a key of sectors
C11_Witness ==
    /\ call.op = "add_piece"
    /\ result.kind = "BackendError"
    /\ Len(backend_calls) = 1
    /\ backend_calls[1].op = "new_staging_sector_access"
    /\ issued = <<1, 2>>
    /\ sector_id_nonce = 2
    /\ DOMAIN sectors = {}

\* C12: a successful add_piece appends exactly one record {piece_key,
\* num_bytes = piece_size, commitment absent} at the end of the destination
\* sector's piece list, and returns the id of that destination: the sector the
\* write went to, which is a Pending sector of the state before the call or the
\* sector provisioned in the call.
C12_SuccessAppendsOnePiece ==
    [][(AddPieceStep /\ result'.kind = "Ok")
          => LET d == result'.val
                 w == backend_calls'[Len(backend_calls')]
             IN  /\ d \in DOMAIN sectors'
                 /\ sectors'[d].sector_id = d
                 /\ sectors'[d].pieces =
                        PiecesBefore(d) \o <<[piece_key |-> call'.piece_key,
                                              num_bytes |-> call'.piece_bytes_amount,
                                              comm_p |-> None]>>
                 /\ w.op = "write_and_preprocess"
                 /\ w.access = sectors'[d].sector_access
                 /\ \/ d \in DOMAIN sectors /\ sectors[d].seal_status = "Pending"
                       /\ AccessRequests = {}
                    \/ d \notin DOMAIN sectors /\ d = sector_id_nonce'
                       /\ AccessRequests = {1}]_vars

\* a piece of another size was appended behind the piece of a selected sector
C12_Witness ==
    /\ call.op = "add_piece"
    /\ result.kind = "Ok"
    /\ Len(backend_calls) = 1
    /\ Len(sectors[result.val].pieces) = 2
    /\ sectors[result.val].pieces[1].num_bytes # sectors[result.val].pieces[2].num_bytes

\* C13: a sector that is not Pending is never a destination: no add_piece call
\* issues a write to it or appends a piece to it, whatever room it has.
C13_SealedSectorNeverDestination ==
    [][AddPieceStep
          => \A k \in DOMAIN sectors :
                sectors[k].seal_status # "Pending"
                    => /\ k \in DOMAIN sectors'
                       /\ sectors'[k] = sectors[k]
                       /\ \A i \in DOMAIN backend_calls' :
                             backend_calls'[i].op = "write_and_preprocess"
                                 => backend_calls'[i].access # sectors[k].sector_access]_vars

\* a piece that fits behind the pieces of a sealed sector was written to a
\* sector provisioned for it
C13_Witness ==
    /\ call.op = "add_piece"
    /\ result.kind = "Ok"
    /\ Len(backend_calls) = 2
    /\ \E k \in DOMAIN sectors :
          /\ k # result.val
          /\ sectors[k].seal_status = "Sealed"
          /\ sectors[k].pieces # <<>>
          /\ LET occupied == sum_piece_lengths(sectors[k].pieces)
                 padding == get_piece_padding(occupied, call.piece_bytes_amount)
             IN  occupied + padding[1] + call.piece_bytes_amount + padding[2] <= sector_max

\* the piece of the step fits, with its padding, behind the pieces sector k had
\* before the step
FitsBefore(k) ==
    LET occupied == sum_piece_lengths(sectors[k].pieces)
        padding == get_piece_padding(occupied, call'.piece_bytes_amount)
    IN  occupied + padding[1] + call'.piece_bytes_amount + padding[2] <= sector_max

\* C14: add_piece provisions only when the selector returned None: when some
\* Pending sector can hold the piece with its padding the call requests no
\* sector access, leaves sector_id_nonce unchanged and adds no key to sectors;
\* and no call provisions more than one sector.
C14_ProvisionOnlyWhenNothingFits ==
    [][AddPieceStep
          => /\ (\E k \in DOMAIN sectors :
                    sectors[k].seal_status = "Pending" /\ FitsBefore(k))
                   => /\ AccessRequests = {}
                      /\ sector_id_nonce' = sector_id_nonce
                      /\ DOMAIN sectors' = DOMAIN sectors
             /\ Cardinality(AccessRequests) <= 1
             /\ sector_id_nonce' <= sector_id_nonce + 1
             /\ Cardinality(DOMAIN sectors' \ DOMAIN sectors) <= 1]_vars

\* a piece filled a Pending sector exactly, and nothing was provisioned
C14_Witness ==
    /\ call.op = "add_piece"
    /\ result.kind = "Ok"
    /\ Len(backend_calls) = 1
    /\ Len(sectors[result.val].pieces) = 2
    /\ LET w == backend_calls[1]
       IN  sum_piece_lengths(sectors[result.val].pieces) + w.left + w.right = sector_max

\* the step provisioned, and the backend gave the sector access
ProvisioningSucceeded ==
    /\ AddPieceStep
    /\ \E i \in AccessRequests : backend_calls'[i].ret # -1

\* C15: a successful provisioning inserts one new sector record, Pending, with
\* sector_id equal to its key, under an id that was no key of sectors before,
\* and leaves every record that existed unchanged. Its piece list is empty when
\* provisioning is all the call achieved, and holds the piece of the call alone
\* when the call went on to record it; the record provisioning itself leaves in
\* the state is empty in both cases.
C15_ProvisioningInsertsFreshSector ==
    [][ProvisioningSucceeded
          => LET k == sector_id_nonce + 1
             IN  /\ k \notin DOMAIN sectors
                 /\ DOMAIN sectors' = DOMAIN sectors \cup {k}
                 /\ sector_id_nonce' = k
                 /\ sectors'[k].sector_id = k
                 /\ sectors'[k].seal_status = "Pending"
                 /\ sectors'[k].sector_access = backend_calls'[1].ret
                 /\ sectors'[k].pieces =
                        IF result'.kind = "Ok"
                        THEN <<PieceMetadata(call'.piece_key, call'.piece_bytes_amount)>>
                        ELSE <<>>
                 /\ \A j \in DOMAIN sectors : sectors'[j] = sectors[j]
                 /\ LET prov == provision_new_staged_sector(
                                    [sectors |-> sectors,
                                     sector_id_nonce |-> sector_id_nonce],
                                    Some(backend_calls'[1].ret))
                    IN  /\ prov.res = Ok(k)
                        /\ DOMAIN prov.st.sectors = DOMAIN sectors \cup {k}
                        /\ prov.st.sectors[k]
                              = [sector_id |-> k, sector_access |-> backend_calls'[1].ret,
                                 pieces |-> <<>>, seal_status |-> "Pending"]
                        /\ \A j \in DOMAIN sectors : prov.st.sectors[j] = sectors[j]]_vars

\* a sector was provisioned under id 2 after id 1 was lost to a failed
\* provisioning, and the call then failed to open the piece
C15_Witness ==
    /\ call.op = "add_piece"
    /\ result.kind = "IoError"
    /\ Len(backend_calls) = 1
    /\ backend_calls[1].ret # -1
    /\ DOMAIN sectors = {2}
    /\ sectors[2].pieces = <<>>

\* s is a prefix of t
IsPrefix(s, t) == Len(s) <= Len(t) /\ SubSeq(t, 1, Len(s)) = s

\* C16: piece lists are append-only: over every step, no sector key is removed
\* and each sector's piece list is a prefix of its piece list after the step
\* (hence of its list in every later state); a successful call changes the
\* piece list of the destination sector only.
C16_PieceListsAppendOnly ==
    [][/\ \A k \in DOMAIN sectors :
             k \in DOMAIN sectors' /\ IsPrefix(sectors[k].pieces, sectors'[k].pieces)
       /\ (AddPieceStep /\ result'.kind = "Ok")
             => \A k \in DOMAIN sectors' \ {result'.val} :
                   sectors'[k].pieces = PiecesBefore(k)]_vars

\* a second piece was appended to one sector while another sector holds pieces
C16_Witness ==
    /\ call.op = "add_piece"
    /\ result.kind = "Ok"
    /\ Len(sectors[result.val].pieces) = 2
    /\ \E k \in DOMAIN sectors : k # result.val /\ sectors[k].pieces # <<>>

\* C17: with one add_piece at a time on a state, UnrecoverableState is never
\* returned: the destination id the selector or the provisioner produced is a
\* key of sectors when it is looked up.
C17_UnrecoverableStateUnreachable ==
    result.kind # "UnrecoverableState"

\* the lookup found the sector the selector had chosen, next to a sealed sector
C17_Witness ==
    /\ call.op = "add_piece"
    /\ result.kind = "Ok"
    /\ Len(backend_calls) = 1
    /\ backend_calls[1].op = "write_and_preprocess"
    /\ \E k \in DOMAIN sectors : sectors[k].seal_status = "Sealed"

\* the step provisioned a sector and the backend then failed the write
WriteFailedAfterProvisioning ==
    /\ AddPieceStep
    /\ Len(backend_calls') = 2
    /\ backend_calls'[1].op = "new_staging_sector_access"
    /\ backend_calls'[1].ret # -1
    /\ backend_calls'[2].op = "write_and_preprocess"
    /\ backend_calls'[2].ret = -1

\* C18: when add_piece provisions a sector and the write then fails at the
\* backend, the error is propagated, no piece is recorded, the nonce stays
\* incremented, and the new sector stays in sectors, empty and Pending: it is a
\* candidate of the next call, and the selector returns it for every piece an
\* empty sector can hold.
C18_WriteFailureKeepsProvisionedSector ==
    [][WriteFailedAfterProvisioning
          => LET k == sector_id_nonce + 1
             IN  /\ result' = BackendError
                 /\ sector_id_nonce' = k
                 /\ DOMAIN sectors' = DOMAIN sectors \cup {k}
                 /\ \A j \in DOMAIN sectors : sectors'[j] = sectors[j]
                 /\ k \notin DOMAIN sectors
                 /\ sectors'[k].pieces = <<>>
                 /\ sectors'[k].seal_status = "Pending"
                 /\ k \in PendingKeys(sectors')
                 /\ \A p \in PieceSizes :
                       LET padding == get_piece_padding(0, p)
                       IN  padding[1] + p + padding[2] <= sector_max
                              => compute_destination_sector_id(<<sectors'[k]>>, sector_max, p)
                                    = Ok(Some(k))]_vars

\* the write into a sector provisioned next to a non-empty one failed
C18_Witness ==
    /\ call.op = "add_piece"
    /\ result.kind = "BackendError"
    /\ Len(backend_calls) = 2
    /\ backend_calls[2].ret = -1
    /\ sectors[sector_id_nonce].pieces = <<>>
    /\ \E j \in DOMAIN sectors : sectors[j].pieces # <<>>

\* the writes of the step
Writes == {i \in DOMAIN backend_calls' : backend_calls'[i].op = "write_and_preprocess"}

\* C19: every write add_piece issues satisfies sector_length + left_padding +
\* piece_size + right_padding <= capacity for the sector it goes to,
\* sector_length being the sum of the piece lengths the sector had before the
\* call; a sector provisioned in the call included.
C19_EveryWriteFits ==
    [][AddPieceStep
          => \A i \in Writes :
                LET w == backend_calls'[i]
                IN  /\ \E k \in DOMAIN sectors' : sectors'[k].sector_access = w.access
                    /\ \A k \in DOMAIN sectors' :
                          sectors'[k].sector_access = w.access
                             => sum_piece_lengths(PiecesBefore(k)) + w.left + w.bytes
                                   + w.right <= sector_max]_vars

====
